---- MODULE Spec2Model ----
(***************************************************************************)
(* Model of the metro proximity service (src/app.py): the process-wide     *)
(* store metro_data, its loader, the jurisdiction classifier and the       *)
(* /check-proximity and /metros.geojson handlers.                          *)
(*                                                                         *)
(* Python strings are sequences of one-character strings, so that split,   *)
(* strip, lower, replace and the substring test are computed and not       *)
(* assumed.  Geometry lives on the longitude axis: a polygon is the closed *)
(* interval [lo, hi], its interior is the open interval, and EPSG:3857 is  *)
(* the linear map x = 111319.49 m * lon (exact for Web Mercator x).        *)
(* Planar lengths are integers in centimetres.                             *)
(*                                                                         *)
(* Spec            the server with threaded handlers: the import-time      *)
(*                 load, /metros.geojson workers, one /check-proximity     *)
(*                 worker, the dataset file appearing and disappearing.    *)
(* SpecSerial      the same server serving one request at a time.          *)
(* SpecQuery       /check-proximity alone, over every small dataset.       *)
(* SpecJurisdiction, SpecFilter                                            *)
(*                 the name mining of get_state_from_coords and the        *)
(*                 allow-list filter of load_metro_data as functions.      *)
(***************************************************************************)
EXTENDS Integers, Sequences, FiniteSets, TLC

\* ------------------------------------------------------------------------
\* Python str operations
\* ------------------------------------------------------------------------
UpperChars ==
  {"A","B","C","D","E","F","G","H","I","J","K","L","M",
   "N","O","P","Q","R","S","T","U","V","W","X","Y","Z"}

LowerChars ==
  {"a","b","c","d","e","f","g","h","i","j","k","l","m",
   "n","o","p","q","r","s","t","u","v","w","x","y","z"}

CasePairs ==
  { <<"A","a">>, <<"B","b">>, <<"C","c">>, <<"D","d">>, <<"E","e">>,
    <<"F","f">>, <<"G","g">>, <<"H","h">>, <<"I","i">>, <<"J","j">>,
    <<"K","k">>, <<"L","l">>, <<"M","m">>, <<"N","n">>, <<"O","o">>,
    <<"P","p">>, <<"Q","q">>, <<"R","r">>, <<"S","s">>, <<"T","t">>,
    <<"U","u">>, <<"V","v">>, <<"W","w">>, <<"X","x">>, <<"Y","y">>,
    <<"Z","z">> }

CharLower(c) ==
  IF c \in UpperChars THEN (CHOOSE p \in CasePairs : p[1] = c)[2] ELSE c

CharUpper(c) ==
  IF c \in LowerChars THEN (CHOOSE p \in CasePairs : p[2] = c)[1] ELSE c

\* str.lower()
StrLower(s) == [i \in 1..Len(s) |-> CharLower(s[i])]

\* str.upper()
StrUpper(s) == [i \in 1..Len(s) |-> CharUpper(s[i])]

\* str.isupper(): at least one cased character and no lowercase character
StrIsUpper(s) ==
  /\ \E i \in 1..Len(s) : s[i] \in UpperChars
  /\ \A i \in 1..Len(s) : s[i] \notin LowerChars

\* str.strip(): drop leading and trailing whitespace
StrStrip(s) ==
  LET nonblank == {i \in 1..Len(s) : s[i] # " "}
  IN  IF nonblank = {} THEN <<>>
      ELSE LET first == CHOOSE i \in nonblank : \A j \in nonblank : i <= j
               last  == CHOOSE i \in nonblank : \A j \in nonblank : i >= j
           IN  SubSeq(s, first, last)

\* sub in s
StrIn(sub, s) ==
  \E i \in 0..(Len(s) - Len(sub)) : SubSeq(s, i + 1, i + Len(sub)) = sub

\* s.replace(old, new), leftmost non-overlapping occurrences, Len(old) > 0
RECURSIVE StrReplace(_, _, _)
StrReplace(s, old, new) ==
  IF Len(s) < Len(old) THEN s
  ELSE IF SubSeq(s, 1, Len(old)) = old
       THEN new \o StrReplace(SubSeq(s, Len(old) + 1, Len(s)), old, new)
       ELSE <<s[1]>> \o StrReplace(SubSeq(s, 2, Len(s)), old, new)

\* s.split(sep) for a one-character separator: always at least one part
RECURSIVE StrSplit(_, _)
StrSplit(s, sep) ==
  LET hits == {i \in 1..Len(s) : s[i] = sep}
  IN  IF hits = {} THEN <<s>>
      ELSE LET k == CHOOSE i \in hits : \A j \in hits : i <= j
           IN  <<SubSeq(s, 1, k - 1)>> \o StrSplit(SubSeq(s, k + 1, Len(s)), sep)

\* Python None where a str is expected: no str has a multi-character element
None == <<"None">>

\* ------------------------------------------------------------------------
\* Jurisdiction classifier
\* ------------------------------------------------------------------------
EXCLUDED_STATES ==
  { <<"H","I">>, <<"A","K">>, <<"F","L">>, <<"N","Y">>, <<"N","J">>,
    <<"N","D">>, <<"S","D">>,
    <<"H","a","w","a","i","i">>, <<"A","l","a","s","k","a">>,
    <<"F","l","o","r","i","d","a">>, <<"N","e","w"," ","Y","o","r","k">>,
    <<"N","e","w"," ","J","e","r","s","e","y">>,
    <<"N","o","r","t","h"," ","D","a","k","o","t","a">>,
    <<"S","o","u","t","h"," ","D","a","k","o","t","a">> }

\* the members of EXCLUDED_STATES the inner loop can return for one part
PartStates(part) == {state \in EXCLUDED_STATES : StrIn(state, part)}

\* One part of the name decides: a two-character isupper() part returns
\* itself, otherwise any member of EXCLUDED_STATES found in the part.
PartDecides(part) ==
  \/ Len(part) = 2 /\ StrIsUpper(part)
  \/ PartStates(part) # {}

PartReturns(part) ==
  IF Len(part) = 2 /\ StrIsUpper(part) THEN {part} ELSE PartStates(part)

\* the scan of the parts taken from the right: the last deciding part wins
StatesFromNameLast(metro_name) ==
  LET parts == StrSplit(StrReplace(metro_name, <<"-">>, <<",">>), ",")
      stripped == [i \in 1..Len(parts) |-> StrStrip(parts[i])]
      deciding == {i \in 1..Len(parts) : PartDecides(stripped[i])}
  IN  IF deciding = {} THEN {None}
      ELSE PartReturns(stripped[CHOOSE i \in deciding : \A j \in deciding : i >= j])

\* The values the name-mining loop of get_state_from_coords can return for
\* the NAME of the containing row.  The set iteration order of
\* EXCLUDED_STATES is not fixed, so a part containing several members can
\* return any of them; None when no part decides.
StatesFromName(metro_name) ==
  LET parts == StrSplit(StrReplace(metro_name, <<"-">>, <<",">>), ",")
      stripped == [i \in 1..Len(parts) |-> StrStrip(parts[i])]
      deciding == {i \in 1..Len(parts) : PartDecides(stripped[i])}
  IN  IF deciding = {} THEN {None}
      ELSE PartReturns(stripped[CHOOSE i \in deciding : \A j \in deciding : i <= j])

\* the membership test left out: any extracted code counts as excluded
is_excluded_state_any(state) ==
  IF state = None \/ state = <<>> THEN FALSE ELSE TRUE

is_excluded_state(state) ==
  IF state = None \/ state = <<>> THEN FALSE
  ELSE state \in EXCLUDED_STATES \/ StrUpper(state) \in EXCLUDED_STATES

\* ------------------------------------------------------------------------
\* Python float, as far as the handler uses it
\* ------------------------------------------------------------------------
Fin(v) == [kind |-> "fin", v |-> v]

NaN == [kind |-> "nan", v |-> 0]

Inf == [kind |-> "inf", v |-> 0]

IsFinite(f) == f.kind = "fin"

\* request.args.get(key) is None for an absent key
Missing == "<missing>"

\* the integers whose decimal numerals occur in query strings
Numerals == -1..70

\* float(x): the exception it raises ("ok" when it returns)
FloatRaises(x) ==
  IF x = Missing THEN "TypeError"
  ELSE IF x \in {"nan", "inf"} \/ \E n \in Numerals : ToString(n) = x THEN "ok"
  ELSE "ValueError"

\* float(x) for an x that float() accepts
FloatOf(x) ==
  IF x = "nan" THEN NaN
  ELSE IF x = "inf" THEN Inf
  ELSE Fin(CHOOSE n \in Numerals : ToString(n) = x)

\* centimetres per mile: max_distance_miles * 1609.34 metres
CmPerMile == 160934

MilesToMeters(miles) ==
  IF IsFinite(miles) THEN Fin(miles.v * CmPerMile) ELSE miles

\* distance <= max_distance_meters, distance a finite length in cm
DistLeq(d, max_distance_meters) ==
  CASE max_distance_meters.kind = "nan" -> FALSE
    [] max_distance_meters.kind = "inf" -> TRUE
    [] OTHER -> d <= max_distance_meters.v

\* round(distance / 1609.34, 2), in hundredths of a mile
RoundMiles(d) ==
  LET half == CmPerMile \div 2
      q == d \div half
      r == d % half
  IN  q * 50 + ((100 * r + half) \div CmPerMile)

\* ------------------------------------------------------------------------
\* GeoDataFrame, coordinate reference systems and shapely predicates
\* ------------------------------------------------------------------------
WGS84 == "EPSG:4326"

Mercator == "EPSG:3857"

\* EPSG:3857 x for one degree of longitude, in cm (111319.49 m)
CmPerDegree == 11131949

\* the module global before any assignment (metro_data = None)
NoFrame == [rows |-> <<>>, crs |-> "None"]

\* the test "is None" that never holds
IsNoneNever(frame) == FALSE

IsNone(frame) == frame.crs = "None"

ProjectCoord(x, from, to) ==
  IF from = to THEN x
  ELSE IF to = Mercator THEN x * CmPerDegree
  ELSE x \div CmPerDegree

ProjectGeom(g, from, to) ==
  [lo |-> ProjectCoord(g.lo, from, to), hi |-> ProjectCoord(g.hi, from, to)]

\* GeoDataFrame.to_crs(crs): every geometry reprojected, labels kept
to_crs(frame, crs) ==
  [rows |-> [i \in 1..Len(frame.rows) |->
               [frame.rows[i] EXCEPT
                  !.geometry = ProjectGeom(@, frame.crs, crs)]],
   crs |-> crs]

\* contains() taken for covers(): the boundary counts as inside
ContainsOrTouches(g, x) == g.lo <= x /\ x <= g.hi

\* geometry.contains(point): the point is in the interior
Contains(g, x) == g.lo < x /\ x < g.hi

\* geometry.distance(point): 0 inside and on the boundary
Distance(g, x) ==
  IF x < g.lo THEN g.lo - x ELSE IF x > g.hi THEN x - g.hi ELSE 0

\* nearest_points(point, geometry)[1]: the point itself when covered
NearestPoint(g, x) ==
  IF x < g.lo THEN g.lo ELSE IF x > g.hi THEN g.hi ELSE x

\* ------------------------------------------------------------------------
\* load_metro_data: the target list and the name filter
\* ------------------------------------------------------------------------
Other == <<"O","t","h","e","r">>

Rural == <<"R","u","r","a","l">>

\* the file does not exist
NoFile == <<None>>

\* target_names after reading target_metros.txt (empty when it is absent)
ReadTargetNames(file) ==
  IF file = NoFile THEN {}
  ELSE {StrStrip(file[i]) : i \in 1..Len(file)} \ {<<>>, Other, Rural}

TargetMain(target) ==
  StrStrip(StrReplace(StrStrip(StrLower(StrSplit(target, ",")[1])),
                      <<" ","m","s","a">>, <<>>))

\* the substring test turned round: the record's main part in the entry's
matches_target_reversed(census_name, target_names) ==
  \E target \in target_names : StrIn(TargetMain(census_name), TargetMain(target))

matches_target(census_name, target_names) ==
  \E target \in target_names : StrIn(TargetMain(target), StrLower(census_name))

SelectRows(rows, target_names) ==
  SelectSeq(rows, LAMBDA row : matches_target(row.NAME, target_names))

\* the value assigned to metro_data at line 101 or 104
FilteredFrame(all_metro_data, target_names) ==
  IF target_names # {}
  THEN [rows |-> SelectRows(all_metro_data.rows, target_names),
        crs |-> all_metro_data.crs]
  ELSE all_metro_data

\* ------------------------------------------------------------------------
\* Bounds and inputs
\* ------------------------------------------------------------------------
\* longitudes 0..MaxLon, in whole degrees
MaxLon == 2

\* records in the boundary dataset
MaxRegions == 2

\* concurrent /metros.geojson handlers
NumGeojson == 2

\* parts of a region name in the study of the classifier
MaxTokens == 2

\* lines of target_metros.txt in the study of the filter
MaxLines == 2

Main == <<"main", 0>>

Query == <<"query", 0>>

GeojsonWorkers == {<<"geojson", i>> : i \in 1..NumGeojson}

Procs == {Main, Query} \cup GeojsonWorkers

Miami == <<"M","i","a","m","i">>

Bend == <<"B","e","n","d">>

Metroville == <<"M","e","t","r","o","v","i","l","l","e">>

NewYork == <<"N","e","w"," ","Y","o","r","k">>

CommaSp == <<",", " ">>

\* "Miami, FL", "Bend, OR", "Metroville"
RegionNames ==
  { Miami \o CommaSp \o <<"F","L">>,
    Bend \o CommaSp \o <<"O","R">>,
    Metroville }

Intervals ==
  {[lo |-> a, hi |-> b] : a \in 0..MaxLon, b \in 0..MaxLon} \ 
  {g \in [lo : 0..MaxLon, hi : 0..MaxLon] : g.lo >= g.hi}

\* gpd.read_file: rows labelled 0, 1, ... in file order, geometry in degrees
ReadFile(records) ==
  [rows |-> [i \in 1..Len(records) |->
               [idx |-> i - 1,
                NAME |-> records[i][1],
                CBSAFP |-> ToString(10000 + 10 * i),
                geometry |-> records[i][2]]],
   crs |-> WGS84]

RECURSIVE SeqsUpTo(_, _)
SeqsUpTo(S, n) ==
  IF n = 0 THEN {<<>>}
  ELSE LET shorter == SeqsUpTo(S, n - 1)
       IN  shorter \cup {Append(q, x) : q \in shorter, x \in S}

\* every boundary dataset of at most MaxRegions records
Shapefiles == {ReadFile(recs) : recs \in SeqsUpTo(RegionNames \X Intervals, MaxRegions)}

\* the dataset of the server runs: overlapping regions, one of them excluded
ServerShapefile ==
  ReadFile(<< <<Miami \o CommaSp \o <<"F","L">>, [lo |-> 0, hi |-> 2]>>,
              <<Bend \o CommaSp \o <<"O","R">>, [lo |-> 1, hi |-> 3]>> >>)

\* target_metros.txt: absent, or one matching entry and a sentinel line,
\* or one entry that matches no record of the dataset
TargetFiles ==
  { NoFile,
    <<Bend \o <<" ","M","S","A">>, Other>>,
    <<NewYork \o <<" ","M","S","A">>>> }

LatArgs == {Missing, "abc", "nan", "0"}

LonArgs == {Missing, "inf"} \cup {ToString(n) : n \in 0..MaxLon}

MaxDistanceArgs == {Missing, "abc", "nan", "-1", "70"}

Request(lat, lon, max_distance) ==
  [lat |-> lat, lon |-> lon, max_distance |-> max_distance]

\* the query strings of the study of the handler: every longitude with
\* every radius, and every kind of latitude
AllRequests ==
  {Request("0", ToString(n), m) : n \in 0..MaxLon, m \in MaxDistanceArgs} \cup
  {Request("0", lon, Missing) : lon \in LonArgs} \cup
  {Request(lat, "0", Missing) : lat \in LatArgs}

\* the query strings sent to the running server
ServerRequests ==
  {Request("0", "2", Missing), Request("0", "1", "-1"), Request(Missing, "1", "70")}

\* the query strings of each kind of traffic
Requests(kind) == IF kind = "server" THEN ServerRequests ELSE AllRequests

\* ------------------------------------------------------------------------
\* State
\* ------------------------------------------------------------------------
VARIABLES
  shapefile_exists,  \* os.path.exists(shapefile_path)
  shapefile,         \* what gpd.read_file(shapefile_path) returns
  target_file,       \* the lines of target_metros.txt, or NoFile
  traffic,           \* the kind of query strings clients send
  metro_data,        \* the module global
  pc,                \* where each thread is
  local,             \* each thread's local variables
  response,          \* the response each handler returned last
  load_failed,       \* some load_metro_data call took the else branch
  load_succeeded,    \* some load_metro_data call finished line 108
  lazy_returned,     \* some load_metro_data call made by ensure returned
  arg,               \* input of the function under study
  ret                \* its result

\* the files and the clients
env == <<shapefile_exists, shapefile, target_file, traffic>>

\* what has happened so far
history == <<load_failed, load_succeeded, lazy_returned>>

\* the function under study, outside the server
study == <<arg, ret>>

vars ==
  <<shapefile_exists, shapefile, target_file, traffic, metro_data, pc, local,
    response, load_failed, load_succeeded, lazy_returned, arg, ret>>

NoLocal == [none |-> TRUE]

NoResponse == [status |-> 0]

NoArg == <<>>

ServerAtStart ==
  /\ metro_data = NoFrame
  /\ pc = [p \in Procs |-> IF p = Main THEN "load_72" ELSE "idle"]
  /\ local = [p \in Procs |-> NoLocal]
  /\ response = [p \in Procs |-> NoResponse]
  /\ load_failed = FALSE
  /\ load_succeeded = FALSE
  /\ lazy_returned = FALSE

InitServer ==
  /\ ServerAtStart
  /\ arg = NoArg
  /\ ret = NoArg

Init ==
  /\ shapefile_exists \in BOOLEAN
  /\ shapefile = ServerShapefile
  /\ target_file \in TargetFiles
  /\ traffic = "server"
  /\ InitServer

\* ------------------------------------------------------------------------
\* load_metro_data, run by the import (line 598) and by ensure (line 62)
\* ------------------------------------------------------------------------
\* where a thread continues when load_metro_data returns
AfterLoad(p) == IF p = Main THEN "serving" ELSE "geojson_149"

\* a missing dataset taken for an empty one: the global becomes an empty
\* collection instead of staying None
LoadBeginEmpty(p) ==
  /\ pc[p] = "load_72"
  /\ IF shapefile_exists
     THEN /\ local' = [local EXCEPT ![p] =
                         [all_metro_data |-> shapefile,
                          target_names |-> ReadTargetNames(target_file)]]
          /\ pc' = [pc EXCEPT ![p] = "load_101"]
          /\ UNCHANGED <<metro_data, load_failed, lazy_returned>>
     ELSE /\ load_failed' = TRUE
          /\ lazy_returned' = (lazy_returned \/ p # Main)
          /\ metro_data' = [rows |-> <<>>, crs |-> Mercator]
          /\ pc' = [pc EXCEPT ![p] = AfterLoad(p)]
          /\ UNCHANGED local
  /\ UNCHANGED <<env, response, load_succeeded, study>>

\* lines 68-99: the path test, read_file and the target list
LoadBegin(p) ==
  /\ pc[p] = "load_72"
  /\ IF shapefile_exists
     THEN /\ local' = [local EXCEPT ![p] =
                         [all_metro_data |-> shapefile,
                          target_names |-> ReadTargetNames(target_file)]]
          /\ pc' = [pc EXCEPT ![p] = "load_101"]
          /\ UNCHANGED load_failed
          /\ UNCHANGED lazy_returned
     ELSE /\ load_failed' = TRUE
          /\ lazy_returned' = (lazy_returned \/ p # Main)
          /\ pc' = [pc EXCEPT ![p] = AfterLoad(p)]
          /\ UNCHANGED local
  /\ UNCHANGED <<env, metro_data, response, load_succeeded, study>>

\* lines 101-105: the filtered (or whole) collection becomes the global
LoadAssign(p) ==
  /\ pc[p] = "load_101"
  /\ metro_data' = FilteredFrame(local[p].all_metro_data, local[p].target_names)
  /\ pc' = [pc EXCEPT ![p] = "load_108"]
  /\ UNCHANGED <<env, local, response, history, study>>

\* line 108: the global is reprojected and assigned again
LoadProject(p) ==
  /\ pc[p] = "load_108"
  /\ metro_data' = to_crs(metro_data, Mercator)
  /\ load_succeeded' = TRUE
  /\ lazy_returned' = (lazy_returned \/ p # Main)
  /\ pc' = [pc EXCEPT ![p] = AfterLoad(p)]
  /\ local' = [local EXCEPT ![p] = NoLocal]
  /\ UNCHANGED <<env, response, load_failed, study>>

\* ------------------------------------------------------------------------
\* /metros.geojson
\* ------------------------------------------------------------------------
GeojsonRequest(p) ==
  /\ pc[Main] = "serving"
  /\ pc[p] = "idle"
  /\ pc' = [pc EXCEPT ![p] = "ensure_61"]
  /\ response' = [response EXCEPT ![p] = NoResponse]
  /\ UNCHANGED <<env, metro_data, local, history, study>>

\* ensure with a one-time guard: no load once a lazy load has returned
EnsureCheckOnce(p) ==
  /\ pc[p] = "ensure_61"
  /\ IF IsNone(metro_data) /\ ~lazy_returned
     THEN pc' = [pc EXCEPT ![p] = "load_72"]
     ELSE pc' = [pc EXCEPT ![p] = "geojson_149"]
  /\ UNCHANGED <<env, metro_data, local, response, history, study>>

\* ensure_metro_data_loaded, lines 61-62
EnsureCheck(p) ==
  /\ pc[p] = "ensure_61"
  /\ IF IsNone(metro_data)
     THEN pc' = [pc EXCEPT ![p] = "load_72"]
     ELSE pc' = [pc EXCEPT ![p] = "geojson_149"]
  /\ UNCHANGED <<env, metro_data, local, response, history, study>>

\* twice the centroid longitude of a geometry in degrees
Centroid2(g) == g.lo + g.hi

\* lines 149-171
GeojsonRespond(p) ==
  /\ pc[p] = "geojson_149"
  /\ response' = [response EXCEPT ![p] =
        IF IsNone(metro_data)
        THEN [status |-> 500, error |-> "Metro data not loaded"]
        ELSE LET metro_display == to_crs(metro_data, WGS84)
             IN  [status |-> 200,
                  features |-> [i \in 1..Len(metro_display.rows) |->
                     [coordinates2 |-> Centroid2(metro_display.rows[i].geometry),
                      name |-> metro_display.rows[i].NAME]]]]
  /\ pc' = [pc EXCEPT ![p] = "idle"]
  /\ UNCHANGED <<env, metro_data, local, history, study>>

\* the dataset file is deployed or removed while the process runs
ShapefileChange ==
  /\ shapefile_exists' = ~shapefile_exists
  /\ UNCHANGED <<shapefile, target_file, traffic, metro_data, pc, local, response, history, study>>

\* ------------------------------------------------------------------------
\* /check-proximity
\* ------------------------------------------------------------------------
\* request.args.get('max_distance', 50)
MaxDistanceArg(x) == IF x = Missing THEN "50" ELSE x

\* lines 490-492: the first float() that raises, "ok" when none does
ParseRaises(args) ==
  IF FloatRaises(args.lat) # "ok" THEN FloatRaises(args.lat)
  ELSE IF FloatRaises(args.lon) # "ok" THEN FloatRaises(args.lon)
  ELSE FloatRaises(MaxDistanceArg(args.max_distance))

\* except ValueError (line 588)
InvalidParameters ==
  [status |-> 400, error |-> "Invalid parameters. Provide lat, lon as numbers."]

\* except Exception (line 592): str(e) of exception e
InternalError(e) == [status |-> 500, error |-> e]

\* lines 498-500
DataUnavailable == [status |-> 500, error |-> "Metro data not loaded"]

\* the handler's except clauses, by the class of the exception raised
Caught(exc) ==
  IF exc = "ValueError" THEN InvalidParameters ELSE InternalError(exc)

\* Point(lon, lat) in EPSG:3857, for finite coordinates
PointProj(lon) == ProjectCoord(lon.v, WGS84, Mercator)

\* rows of the frame whose geometry contains the point, as positions
ContainingRows(frame, x) ==
  {i \in 1..Len(frame.rows) : Contains(frame.rows[i].geometry, x)}

MinOf(S) == CHOOSE i \in S : \A j \in S : i <= j

MaxOf(S) == CHOOSE i \in S : \A j \in S : i >= j

\* the scan keeping the last containing row instead of the first
get_state_from_last(frame, lat, lon) ==
  IF IsNone(frame) \/ ~IsFinite(lat) \/ ~IsFinite(lon) THEN {None}
  ELSE LET hits == ContainingRows(frame, PointProj(lon))
       IN  IF hits = {} THEN {None}
           ELSE StatesFromName(frame.rows[MaxOf(hits)].NAME)

\* get_state_from_coords: the values it can return.  A coordinate that is
\* not finite is contained in no polygon (or raises inside the try).
get_state_from_coords(frame, lat, lon) ==
  IF IsNone(frame) \/ ~IsFinite(lat) \/ ~IsFinite(lon) THEN {None}
  ELSE LET hits == ContainingRows(frame, PointProj(lon))
       IN  IF hits = {} THEN {None}
           ELSE StatesFromName(frame.rows[MinOf(hits)].NAME)

\* lines 508-513
ExcludedResponse(state) ==
  [status |-> 200, excluded |-> TRUE, excluded_state |-> state,
   within_range |-> FALSE, message |-> <<"We do not lend in", state>>]

\* lines 524-527: the copy with its distance column
WithDistance(frame, x) ==
  [i \in 1..Len(frame.rows) |->
     [idx |-> frame.rows[i].idx,
      NAME |-> frame.rows[i].NAME,
      CBSAFP |-> frame.rows[i].CBSAFP,
      geometry |-> frame.rows[i].geometry,
      distance |-> Distance(frame.rows[i].geometry, x)]]

\* idxmin taken for the last row of minimal distance
IdxMinLast(rows) ==
  CHOOSE i \in 1..Len(rows) :
    \A j \in 1..Len(rows) :
      /\ rows[i].distance <= rows[j].distance
      /\ rows[j].distance = rows[i].distance => i >= j

\* Series.idxmin(): the first row of minimal distance
IdxMin(rows) ==
  CHOOSE i \in 1..Len(rows) :
    \A j \in 1..Len(rows) :
      /\ rows[i].distance <= rows[j].distance
      /\ rows[j].distance = rows[i].distance => i <= j

\* line 542
NearbyRows(rows, max_distance_meters) ==
  SelectSeq(rows, LAMBDA row : DistLeq(row.distance, max_distance_meters))

\* lines 546-556
OutOfRangeResponse(nearest_overall, edge_coords, max_distance_miles) ==
  [status |-> 200,
   within_range |-> FALSE,
   is_inside_metro |-> FALSE,
   nearest_metro |->
     [name |-> nearest_overall.NAME,
      cbsa_code |-> nearest_overall.CBSAFP,
      distance_to_edge_miles |-> RoundMiles(nearest_overall.distance),
      edge_coords |-> edge_coords],
   message |-> <<"Nearest metro is", RoundMiles(nearest_overall.distance),
                 "miles away (outside", max_distance_miles, "mile range)">>]

\* the nearest taken for the first row of the filtered set, not its idxmin
InRangeResponseFirst(nearby_metros, x, edge_coords) ==
  LET nearest == nearby_metros[1]
      is_inside == Contains(nearest.geometry, x)
  IN  [status |-> 200,
       within_range |-> TRUE,
       is_inside_metro |-> is_inside,
       nearest_metro |->
         [name |-> nearest.NAME,
          cbsa_code |-> nearest.CBSAFP,
          distance_to_edge_miles |->
            IF is_inside THEN 0 ELSE RoundMiles(nearest.distance),
          edge_coords |-> edge_coords],
       all_nearby_metros |->
         [i \in 1..Len(nearby_metros) |->
            [name |-> nearby_metros[i].NAME,
             distance_miles |-> RoundMiles(nearby_metros[i].distance),
             cbsa_code |-> nearby_metros[i].CBSAFP]]]

\* lines 559-586
InRangeResponse(nearby_metros, x, edge_coords) ==
  LET nearest == nearby_metros[IdxMin(nearby_metros)]
      is_inside == Contains(nearest.geometry, x)
  IN  [status |-> 200,
       within_range |-> TRUE,
       is_inside_metro |-> is_inside,
       nearest_metro |->
         [name |-> nearest.NAME,
          cbsa_code |-> nearest.CBSAFP,
          distance_to_edge_miles |->
            IF is_inside THEN 0 ELSE RoundMiles(nearest.distance),
          edge_coords |-> edge_coords],
       all_nearby_metros |->
         [i \in 1..Len(nearby_metros) |->
            [name |-> nearby_metros[i].NAME,
             distance_miles |-> RoundMiles(nearby_metros[i].distance),
             cbsa_code |-> nearby_metros[i].CBSAFP]]]

\* What lines 518-586 do with a coordinate that is not finite depends on
\* the geometry library: idxmin over NaN distances raises ValueError or
\* yields a label that .loc rejects (KeyError), or the distances compare
\* as infinite and the nearest-overall branch answers.
NonFiniteOutcomes(rows) ==
  {InvalidParameters, InternalError("KeyError")} \cup
  {[status |-> 200, within_range |-> FALSE, is_inside_metro |-> FALSE,
    nearest_metro |-> [name |-> rows[i].NAME, cbsa_code |-> rows[i].CBSAFP,
                       distance_to_edge_miles |-> "inf",
                       edge_coords |-> <<"nan", "nan">>],
    message |-> <<"Nearest metro is", "inf">>] : i \in {1} \cap DOMAIN rows}

Finish(r) ==
  /\ response' = [response EXCEPT ![Query] = r]
  /\ pc' = [pc EXCEPT ![Query] = "done"]

\* a request arrives: request.args
QueryRequest ==
  /\ pc[Main] = "serving"
  /\ pc[Query] = "idle"
  /\ \E args \in Requests(traffic) :
       local' = [local EXCEPT ![Query] = [args |-> args]]
  /\ pc' = [pc EXCEPT ![Query] = "query_490"]
  /\ response' = [response EXCEPT ![Query] = NoResponse]
  /\ UNCHANGED <<env, metro_data, history, study>>

\* lines 490-500: the three float() calls, then the test of the global
QueryParse ==
  /\ pc[Query] = "query_490"
  /\ LET args == local[Query].args
     IN  IF ParseRaises(args) # "ok"
         THEN Finish(Caught(ParseRaises(args))) /\ UNCHANGED local
         ELSE IF IsNone(metro_data)
         THEN Finish(DataUnavailable) /\ UNCHANGED local
         ELSE /\ local' = [local EXCEPT ![Query] =
                 [args |-> args,
                  lat |-> FloatOf(args.lat),
                  lon |-> FloatOf(args.lon),
                  max_distance_miles |-> FloatOf(MaxDistanceArg(args.max_distance)),
                  max_distance_meters |->
                    MilesToMeters(FloatOf(MaxDistanceArg(args.max_distance)))]]
              /\ pc' = [pc EXCEPT ![Query] = "query_504"]
              /\ UNCHANGED response
  /\ UNCHANGED <<env, metro_data, history, study>>

\* lines 503-516: the exclusion check, reading the global again
QueryStateCheck ==
  /\ pc[Query] = "query_504"
  /\ \E state \in get_state_from_coords(metro_data, local[Query].lat,
                                        local[Query].lon) :
       IF state # None /\ is_excluded_state(state)
       THEN Finish(ExcludedResponse(state)) /\ UNCHANGED local
       ELSE /\ pc' = [pc EXCEPT ![Query] = "query_524"]
            /\ UNCHANGED <<local, response>>
  /\ UNCHANGED <<env, metro_data, history, study>>

\* lines 518-532: metro_data.copy(), the distance column, idxmin
QueryDistance ==
  /\ pc[Query] = "query_524"
  /\ LET l == local[Query]
     IN  IF ~IsFinite(l.lat) \/ ~IsFinite(l.lon)
         THEN /\ \E r \in NonFiniteOutcomes(metro_data.rows) : Finish(r)
              /\ UNCHANGED local
         ELSE IF Len(metro_data.rows) = 0
         THEN Finish(Caught("ValueError")) /\ UNCHANGED local
         ELSE LET metro_working == WithDistance(metro_data, PointProj(l.lon))
              IN  /\ local' = [local EXCEPT ![Query] =
                       [args |-> l.args, lat |-> l.lat, lon |-> l.lon,
                        max_distance_miles |-> l.max_distance_miles,
                        max_distance_meters |-> l.max_distance_meters,
                        metro_working |-> metro_working,
                        nearest_overall |-> metro_working[IdxMin(metro_working)]]]
                  /\ pc' = [pc EXCEPT ![Query] = "query_535"]
                  /\ UNCHANGED response
  /\ UNCHANGED <<env, metro_data, history, study>>

\* lines 535-586: the boundary point from the global in degrees, the
\* radius filter and the answer
QueryAnswer ==
  /\ pc[Query] = "query_535"
  /\ LET l == local[Query]
         wgs84 == to_crs(metro_data, WGS84).rows
         at == {i \in 1..Len(wgs84) : wgs84[i].idx = l.nearest_overall.idx}
         nearby_metros == NearbyRows(l.metro_working, l.max_distance_meters)
     IN  IF at = {}
         THEN Finish(Caught("KeyError"))
         ELSE LET closest_point == NearestPoint(wgs84[MinOf(at)].geometry, l.lon.v)
                  nearest_edge_coords == <<l.lat.v, closest_point>>
              IN  IF Len(nearby_metros) = 0
                  THEN Finish(OutOfRangeResponse(l.nearest_overall,
                                nearest_edge_coords, l.max_distance_miles))
                  ELSE Finish(InRangeResponse(nearby_metros, PointProj(l.lon),
                                nearest_edge_coords))
  /\ UNCHANGED <<env, metro_data, local, history, study>>

\* the response has been sent; the thread takes the next request
QueryReturn ==
  /\ pc[Query] = "done"
  /\ pc' = [pc EXCEPT ![Query] = "idle"]
  /\ local' = [local EXCEPT ![Query] = NoLocal]
  /\ response' = [response EXCEPT ![Query] = NoResponse]
  /\ UNCHANGED <<env, metro_data, history, study>>

\* ------------------------------------------------------------------------
\* Specifications
\* ------------------------------------------------------------------------
LoadNext(p) == LoadBegin(p) \/ LoadAssign(p) \/ LoadProject(p)

GeojsonNext(p) == GeojsonRequest(p) \/ EnsureCheck(p) \/ GeojsonRespond(p)

QueryNext ==
  \/ QueryRequest
  \/ QueryParse
  \/ QueryStateCheck
  \/ QueryDistance
  \/ QueryAnswer
  \/ QueryReturn

Next ==
  \/ \E p \in {Main} \cup GeojsonWorkers : LoadNext(p)
  \/ \E p \in GeojsonWorkers : GeojsonNext(p)
  \/ QueryNext
  \/ ShapefileChange

\* the server: the import-time load, then concurrent handlers
Spec == Init /\ [][Next]_vars

\* the handler alone, over every dataset, after the import-time load
InitQuery ==
  /\ shapefile_exists = TRUE
  /\ shapefile \in Shapefiles
  /\ target_file = NoFile
  /\ traffic = "handler"
  /\ InitServer

NextQuery == LoadNext(Main) \/ QueryNext

SpecQuery == InitQuery /\ [][NextQuery]_vars

\* every handler thread is between requests
AllIdle == \A p \in GeojsonWorkers \cup {Query} : pc[p] = "idle"

\* the server under a worker that serves one request at a time (the
\* Gunicorn deployment of line 597): a request starts when none is in hand
SerialGeojsonRequest(p) ==
  /\ AllIdle
  /\ GeojsonRequest(p)

SerialQueryRequest ==
  /\ AllIdle
  /\ QueryRequest

NextSerial ==
  \/ \E p \in {Main} \cup GeojsonWorkers : LoadNext(p)
  \/ \E p \in GeojsonWorkers :
        \/ SerialGeojsonRequest(p)
        \/ EnsureCheck(p)
        \/ GeojsonRespond(p)
  \/ SerialQueryRequest
  \/ QueryParse
  \/ QueryStateCheck
  \/ QueryDistance
  \/ QueryAnswer
  \/ QueryReturn
  \/ ShapefileChange

SpecSerial == Init /\ [][NextSerial]_vars

\* ------------------------------------------------------------------------
\* Properties of /check-proximity
\* ------------------------------------------------------------------------
\* the query thread has answered a request whose three parameters parsed
Answered == pc[Query] = "done" /\ ParseRaises(local[Query].args) = "ok"

ReqLat == FloatOf(local[Query].args.lat)

ReqLon == FloatOf(local[Query].args.lon)

ReqMiles == FloatOf(MaxDistanceArg(local[Query].args.max_distance))

\* ... and whose coordinates are finite, against a projected store
AnsweredOnStore ==
  /\ Answered
  /\ IsFinite(ReqLat) /\ IsFinite(ReqLon)
  /\ metro_data.crs = Mercator

\* the query thread has answered a request with finite parameters
AnsweredValid ==
  /\ Answered
  /\ IsFinite(ReqLat) /\ IsFinite(ReqLon) /\ IsFinite(ReqMiles)

\* the planar position of the query point, in cm
ReqX == ReqLon.v * CmPerDegree

Regions == 1..Len(metro_data.rows)

Geom(i) == metro_data.rows[i].geometry

StrictlyInside(i) == Geom(i).lo < ReqX /\ ReqX < Geom(i).hi

\* planar boundary distance of region i from the query point
PlanarDistance(i) ==
  IF ReqX < Geom(i).lo THEN Geom(i).lo - ReqX
  ELSE IF ReqX > Geom(i).hi THEN ReqX - Geom(i).hi ELSE 0

\* the radius in cm admits planar distance d
InRadius(d) ==
  \/ ReqMiles.kind = "inf"
  \/ ReqMiles.kind = "fin" /\ d <= ReqMiles.v * 160934

Resp == response[Query]

IsProximityResult == Resp.status = 200 /\ "nearest_metro" \in DOMAIN Resp

IsExcludedResult == Resp.status = 200 /\ "excluded" \in DOMAIN Resp

\* the first region in load order on whose polygon or boundary the point lies
FirstAtZero == MinOf({i \in Regions : PlanarDistance(i) = 0})

\* C1 as stated: a query point strictly inside some loaded polygon is
\* answered with is_inside_metro = true and a distance to edge of 0,
\* whatever the accepted radius.
C1_InsideReportsInside ==
  (AnsweredOnStore /\ \E i \in Regions : StrictlyInside(i))
    => /\ IsProximityResult
       /\ Resp.is_inside_metro = TRUE
       /\ Resp.nearest_metro.distance_to_edge_miles = 0

\* C1 amended: such a point, unless it is answered as excluded, gets a
\* proximity result with distance to edge 0; is_inside_metro is true exactly
\* when the radius is at least 0 (not negative, not NaN) and the first
\* region in load order at planar distance 0 contains the point.
C1_InsideReportsZeroDistance ==
  (AnsweredOnStore /\ ~IsExcludedResult /\ \E i \in Regions : StrictlyInside(i))
    => /\ IsProximityResult
       /\ Resp.nearest_metro.distance_to_edge_miles = 0
       /\ Resp.within_range = InRadius(0)
       /\ Resp.is_inside_metro = (InRadius(0) /\ StrictlyInside(FirstAtZero))

\* a point inside a polygon was answered as inside
C1_Witness ==
  /\ AnsweredOnStore
  /\ \E i \in Regions : StrictlyInside(i)
  /\ IsProximityResult
  /\ Resp.is_inside_metro = TRUE

\* the distance exceeds the radius: maxDistanceMiles * 1609.34 m < d
BeyondRadius(d) == ReqMiles.kind = "fin" /\ d > ReqMiles.v * 160934

\* the first region in load order among those of least planar distance
GlobalNearest ==
  MinOf({i \in Regions : \A j \in Regions : PlanarDistance(i) <= PlanarDistance(j)})

\* the query point is in no polygon and every region is beyond the radius
OutsideBeyondRadius ==
  /\ AnsweredOnStore
  /\ Regions # {}
  /\ \A i \in Regions : ~StrictlyInside(i) /\ BeyondRadius(PlanarDistance(i))

\* C2: a point outside every polygon with every region beyond the radius
\* is answered within_range = false together with the nearest region, which
\* is the first region in load order of least planar boundary distance,
\* whatever the radius.
C2_NearestBeyondRadius ==
  OutsideBeyondRadius
    => /\ IsProximityResult
       /\ Resp.within_range = FALSE
       /\ Resp.nearest_metro.cbsa_code = metro_data.rows[GlobalNearest].CBSAFP
       /\ Resp.nearest_metro.name = metro_data.rows[GlobalNearest].NAME

\* two regions beyond the radius, the later-loaded one reported as nearest
C2_Witness ==
  /\ OutsideBeyondRadius
  /\ IsProximityResult
  /\ GlobalNearest = 2
  /\ PlanarDistance(1) > PlanarDistance(2)
  /\ Resp.nearest_metro.cbsa_code = metro_data.rows[2].CBSAFP

\* two regions at the same distance beyond the radius: the first is reported
C2_TieWitness ==
  /\ OutsideBeyondRadius
  /\ IsProximityResult
  /\ Len(metro_data.rows) = 2
  /\ PlanarDistance(1) = PlanarDistance(2)
  /\ Resp.nearest_metro.cbsa_code = metro_data.rows[1].CBSAFP

\* the regions whose polygon contains the query point
Containing == {i \in Regions : StrictlyInside(i)}

\* the first containing region's name yields only excluded codes
InsideExcluded ==
  /\ AnsweredOnStore
  /\ Containing # {}
  /\ \A code \in StatesFromName(metro_data.rows[MinOf(Containing)].NAME) :
       code \in EXCLUDED_STATES

\* C3: when the first region in load order containing the point has a name
\* whose extracted code is in the exclusion set, the answer is
\* excluded = true with that code and within_range = false, carries no
\* nearest-metro, inside, distance or nearby-list field, and no distance
\* computation has been made.
C3_ExclusionShortCircuit ==
  InsideExcluded
    => /\ Resp.status = 200
       /\ DOMAIN Resp =
            {"status", "excluded", "excluded_state", "within_range", "message"}
       /\ Resp.excluded = TRUE
       /\ Resp.excluded_state \in
            StatesFromName(metro_data.rows[MinOf(Containing)].NAME)
       /\ Resp.within_range = FALSE
       /\ "metro_working" \notin DOMAIN local[Query]
       /\ "nearest_overall" \notin DOMAIN local[Query]

\* a point inside two polygons, only the first-loaded one excluded
C3_Witness ==
  /\ InsideExcluded
  /\ Cardinality(Containing) = 2
  /\ \E i \in Containing :
       StatesFromName(metro_data.rows[i].NAME) \cap EXCLUDED_STATES = {}
  /\ IsExcludedResult
  /\ Resp.excluded_state = <<"F", "L">>

\* the regions within the radius of the query point
WithinRadius == {i \in Regions : InRadius(PlanarDistance(i))}

\* the k-th member of the set S of regions, in load order
Kth(S, k) == CHOOSE i \in S : Cardinality({j \in S : j < i}) = k - 1

\* the point of region i's polygon closest to the query point, in degrees
BoundaryPoint(i) ==
  IF ReqX < Geom(i).lo THEN Geom(i).lo \div CmPerDegree
  ELSE IF ReqX > Geom(i).hi THEN Geom(i).hi \div CmPerDegree
  ELSE ReqLon.v

\* some region is within the radius and the answer is not the exclusion
SomeWithinRadius ==
  /\ AnsweredOnStore
  /\ ~IsExcludedResult
  /\ WithinRadius # {}

\* C11: when at least one region lies within maxDistanceMiles * 1609.34 m
\* of the point and the query is not excluded, the answer has
\* within_range = true, its nearest region is the globally nearest one
\* (first in load order among those of least distance), the boundary point
\* is that region's, and the nearby list holds exactly the regions within
\* the radius, each once, in load order.
C11_WithinRangeNearestAndNearby ==
  SomeWithinRadius
    => LET within == WithinRadius
           nearest == GlobalNearest
       IN  /\ IsProximityResult
           /\ Resp.within_range = TRUE
           /\ Resp.nearest_metro.cbsa_code = metro_data.rows[nearest].CBSAFP
           /\ Resp.nearest_metro.name = metro_data.rows[nearest].NAME
           /\ Resp.nearest_metro.edge_coords =
                <<ReqLat.v, BoundaryPoint(nearest)>>
           /\ Len(Resp.all_nearby_metros) = Cardinality(within)
           /\ \A k \in 1..Len(Resp.all_nearby_metros) :
                /\ Resp.all_nearby_metros[k].cbsa_code =
                     metro_data.rows[Kth(within, k)].CBSAFP
                /\ Resp.all_nearby_metros[k].name =
                     metro_data.rows[Kth(within, k)].NAME

\* two regions, the later-loaded one nearest and the only one in the list
C11_Witness ==
  /\ SomeWithinRadius
  /\ Len(metro_data.rows) = 2
  /\ WithinRadius = {2}
  /\ IsProximityResult
  /\ Resp.within_range = TRUE
  /\ Len(Resp.all_nearby_metros) = 1
  /\ Resp.nearest_metro.cbsa_code = metro_data.rows[2].CBSAFP

\* two regions within the radius, the nearest one loaded second
C11_OrderWitness ==
  /\ SomeWithinRadius
  /\ WithinRadius = {1, 2}
  /\ PlanarDistance(2) < PlanarDistance(1)
  /\ IsProximityResult
  /\ Len(Resp.all_nearby_metros) = 2
  /\ Resp.all_nearby_metros[1].cbsa_code = metro_data.rows[1].CBSAFP
  /\ Resp.nearest_metro.cbsa_code = metro_data.rows[2].CBSAFP

\* the codes the name of the first region containing the point can yield
FirstContainingCodes ==
  StatesFromName(metro_data.rows[MinOf(Containing)].NAME)

\* the code, or its uppercase form, is a literal member of the exclusion set
LiteralMember(code) ==
  code \in EXCLUDED_STATES \/ StrUpper(code) \in EXCLUDED_STATES

\* the conditions under which the query is to be reported excluded
ExclusionApplies ==
  /\ IsFinite(ReqLat) /\ IsFinite(ReqLon)
  /\ Containing # {}
  /\ \E code \in FirstContainingCodes : code # None /\ LiteralMember(code)

\* the exclusion check of the query in hand has just been left
StateCheckLeft == pc[Query] = "query_504" /\ pc'[Query] # "query_504"

\* C12: a query is answered excluded only if some loaded region contains
\* the point, the code extracted from the first such region's name is not
\* None and that code or its uppercase form is a member of
\* EXCLUDED_STATES; in every other case (no containing region, no token,
\* a code that is not excluded, a coordinate the check cannot handle) the
\* exclusion check answers nothing and control passes to the distance
\* computation.
C12_ExcludedOnlyByMembership ==
  /\ []((Answered /\ IsExcludedResult)
          => /\ ExclusionApplies
             /\ Resp.excluded_state \in FirstContainingCodes
             /\ Resp.excluded_state # None
             /\ LiteralMember(Resp.excluded_state))
  /\ [][StateCheckLeft
          => IF ExclusionApplies
             THEN pc'[Query] = "done" /\ response'[Query].excluded = TRUE
             ELSE pc'[Query] = "query_524" /\ response'[Query] = NoResponse]_vars

\* a point inside two regions, the first-loaded one with a code that is not
\* excluded and the second excluded: the proximity answer is given
C12_Witness ==
  /\ AnsweredOnStore
  /\ Cardinality(Containing) = 2
  /\ FirstContainingCodes = {<<"O", "R">>}
  /\ \E i \in Containing :
       StatesFromName(metro_data.rows[i].NAME) \subseteq EXCLUDED_STATES
  /\ ~ExclusionApplies
  /\ IsProximityResult

\* a point inside a region whose name carries no token at all
C12_NoTokenWitness ==
  /\ AnsweredOnStore
  /\ Containing # {}
  /\ FirstContainingCodes = {None}
  /\ IsProximityResult

\* a longitude that is not finite: the check yields no code and the
\* distance computation is entered
C12_FailureWitness ==
  /\ pc[Query] = "query_524"
  /\ ~IsFinite(local[Query].lon)
  /\ Len(metro_data.rows) > 0

\* the query in hand was answered with an error although its parameters
\* are finite numbers and the store is available
FailedOnAvailableStore ==
  /\ AnsweredValid
  /\ ~IsNone(metro_data)
  /\ Resp.status # 200

\* C13: for a query with finite parameters against an available store, a
\* store of zero regions included, a failure of the containment or distance
\* computation is answered as the generic internal error (status 500 with
\* the exception's message), never as InvalidParameters, and no step of
\* the query changes the store.
C13_FailureIsInternalError ==
  /\ [](FailedOnAvailableStore
          => /\ Resp.status = 500
             /\ Resp # InvalidParameters)
  /\ [][pc'[Query] # pc[Query] => metro_data' = metro_data]_vars

\* ------------------------------------------------------------------------
\* Properties of the store's life cycle
\* ------------------------------------------------------------------------
\* C4: after a load that failed on the missing dataset, and as long as no
\* load has succeeded, every query with valid numeric parameters is
\* answered DataUnavailable (status 500, "Metro data not loaded").
C4_UnavailableAfterFailedLoad ==
  (load_failed /\ ~load_succeeded /\ AnsweredValid)
    => Resp = [status |-> 500, error |-> "Metro data not loaded"]

\* a query was answered DataUnavailable after a failed load
C4_Witness ==
  /\ load_failed /\ ~load_succeeded /\ AnsweredValid
  /\ Resp.status = 500
  /\ pc[Main] = "serving"

\* a worker passes from the test of line 61 to the call of line 62
EnsureLoads(p) == pc[p] = "ensure_61" /\ pc'[p] = "load_72"

\* C6 as stated: over a sequence of ensure calls load is invoked at most
\* once; no ensure call invokes load after a lazy load has returned.
C6_LoadAtMostOnce ==
  [][(\E p \in GeojsonWorkers : EnsureLoads(p)) => ~lazy_returned]_vars

\* C6 amended: an ensure call invokes load exactly when the global is None
\* at its test; the global never becomes None again, so calls after a
\* successful load are no-ops, and calls after a failed load invoke load
\* again.
C6_LoadWhileNone ==
  /\ [][\A p \in GeojsonWorkers :
          (pc[p] = "ensure_61" /\ pc'[p] # "ensure_61")
            => (pc'[p] = "load_72") = (metro_data.crs = "None")]_vars
  /\ [][metro_data.crs # "None" => metro_data'.crs # "None"]_vars

\* a load is invoked again after a lazy load failed
C6_Witness ==
  /\ lazy_returned /\ load_failed /\ ~load_succeeded
  /\ \E p \in GeojsonWorkers : pc[p] = "load_72"

\* C7 as stated: once a build has succeeded the content of the store is
\* never replaced or modified, by any thread.
C7_WriteOnce == [][load_succeeded => metro_data' = metro_data]_vars

\* C8 as stated: a query that finds the store not built triggers the lazy
\* load, so it answers DataUnavailable only when a load attempted at that
\* moment would not produce a store (the dataset is missing).
C8_QueryTriggersLazyLoad ==
  [][(pc[Query] = "query_490" /\ pc'[Query] = "done"
        /\ response'[Query] = [status |-> 500, error |-> "Metro data not loaded"])
       => ~shapefile_exists]_vars

\* C8 amended: the store is assigned only by the import-time load and by
\* loads started from /metros.geojson; a check-proximity request with
\* parseable parameters that finds the store not built is answered
\* DataUnavailable, starts no load and leaves the store as it is.
C8_QueryNeverLoads ==
  /\ [](pc[Query] \notin {"ensure_61", "load_72", "load_101", "load_108"})
  /\ [][(pc[Query] = "query_490" /\ pc'[Query] # "query_490")
          => /\ metro_data' = metro_data
             /\ (response'[Query] = [status |-> 500, error |-> "Metro data not loaded"])
                  = (ParseRaises(local[Query].args) = "ok" /\ metro_data.crs = "None")]_vars
  /\ [][metro_data' # metro_data
          => \E p \in {Main} \cup GeojsonWorkers :
               pc[p] \in {"load_101", "load_108"} /\ pc'[p] # pc[p]]_vars

\* a query was answered DataUnavailable although the dataset is in place
C8_Witness ==
  /\ Answered
  /\ Resp = [status |-> 500, error |-> "Metro data not loaded"]
  /\ shapefile_exists
  /\ metro_data.crs = "None"

\* the query thread takes a step that reads the global and finds it loaded:
\* the test of line 497, the exclusion check, the copy of line 521 or the
\* reprojection of line 535
QueryReadsStore ==
  /\ pc[Query] \in {"query_490", "query_504", "query_524", "query_535"}
  /\ pc'[Query] # pc[Query]
  /\ pc[Query] = "query_490" => ParseRaises(local[Query].args) = "ok"
  /\ ~IsNone(metro_data)

\* C14: under every interleaving of a load with queries, a query that finds
\* the store loaded finds it in planar coordinates (EPSG:3857): the store is
\* never readable as available while its geometry is still in degrees.
C14_QueriesSeeProjectedStore ==
  [][QueryReadsStore => metro_data.crs = Mercator]_vars

\* ------------------------------------------------------------------------
\* Parameter validation
\* ------------------------------------------------------------------------
\* a query parameter is absent, not a number, or not a finite number
BadParameter(x) ==
  \/ x = Missing
  \/ x \notin {ToString(n) : n \in Numerals}

\* C5: whenever lat, lon or max_distance is not a finite number (lat or lon
\* absent, a value that is not a number, NaN or an infinity) the answer is
\* InvalidParameters (status 400), never a proximity result or another
\* error.
C5_InvalidParameters ==
  (pc[Query] = "done"
     /\ \/ BadParameter(local[Query].args.lat)
        \/ BadParameter(local[Query].args.lon)
        \/ BadParameter(MaxDistanceArg(local[Query].args.max_distance)))
    => Resp.status = 400

\* ------------------------------------------------------------------------
\* The classifier and the filter as functions
\* ------------------------------------------------------------------------
JurisdictionTokens ==
  { Miami, <<"F","L">>, <<"O","R">>, NewYork, <<"N","Y","C">>, <<"A","1">>,
    <<"f","l">> }

Separators == { <<",", " ">>, <<"-">> }

RECURSIVE NamesOf(_)
NamesOf(n) ==
  IF n = 1 THEN JurisdictionTokens
  ELSE LET shorter == NamesOf(n - 1)
       IN  shorter \cup
           {name \o sep \o t :
              name \in shorter, sep \in Separators, t \in JurisdictionTokens}

\* "Miami-Fort Lauderdale-Pompano Beach, FL"
MiamiMetro ==
  Miami \o <<"-">> \o <<"F","o","r","t"," ","L","a","u","d","e","r","d","a","l","e">>
    \o <<"-">> \o <<"P","o","m","p","a","n","o"," ","B","e","a","c","h">>
    \o CommaSp \o <<"F","L">>

Portland == <<"P","o","r","t","l","a","n","d">>

\* "Portland-Vancouver-Hillsboro, OR-WA"
PortlandMetro ==
  Portland \o <<"-">> \o <<"V","a","n","c","o","u","v","e","r">>
    \o <<"-">> \o <<"H","i","l","l","s","b","o","r","o">>
    \o CommaSp \o <<"O","R","-","W","A">>

JurisdictionNames == NamesOf(MaxTokens) \cup {MiamiMetro, PortlandMetro}

StudyAtStart ==
  /\ shapefile_exists = FALSE
  /\ shapefile = ServerShapefile
  /\ target_file = NoFile
  /\ traffic = "server"
  /\ ServerAtStart

InitJurisdiction ==
  /\ StudyAtStart
  /\ arg \in JurisdictionNames
  /\ ret = NoArg

\* lines 35-47 applied to the name of a containing row
ExtractJurisdiction ==
  /\ ret = NoArg
  /\ ret' \in StatesFromName(arg)
  /\ UNCHANGED <<env, metro_data, pc, local, response, history, arg>>

SpecJurisdiction == InitJurisdiction /\ [][ExtractJurisdiction]_vars

\* the trimmed parts of the name between commas and hyphens
Tokens(name) ==
  LET parts == StrSplit(StrReplace(name, <<"-">>, <<",">>), ",")
  IN  [i \in 1..Len(parts) |-> StrStrip(parts[i])]

LongForms == {state \in EXCLUDED_STATES : Len(state) > 2}

TwoUpperLetters(t) == Len(t) = 2 /\ t[1] \in UpperChars /\ t[2] \in UpperChars

\* C9 as stated: the first token, left to right, that is two uppercase
\* letters (returned itself) or contains a long-form name (which is
\* returned) decides; null when there is none.
C9_TokenOrLongForm ==
  ret # NoArg =>
    LET t == Tokens(arg)
        hit(i) == TwoUpperLetters(t[i]) \/ \E f \in LongForms : StrIn(f, t[i])
        hits == {i \in 1..Len(t) : hit(i)}
    IN  IF hits = {} THEN ret = None
        ELSE LET k == MinOf(hits)
             IN  IF TwoUpperLetters(t[k]) THEN ret = t[k]
                 ELSE ret \in LongForms /\ StrIn(ret, t[k])

\* a two-character token that str.isupper() accepts
TwoIsUpper(t) ==
  /\ Len(t) = 2
  /\ \E i \in 1..2 : t[i] \in UpperChars
  /\ \A i \in 1..2 : t[i] \notin LowerChars

\* C9 amended: the first token, left to right, that is two characters with
\* an uppercase letter and no lowercase letter (returned itself) or contains
\* any member of the exclusion set, abbreviation or long form (which is
\* returned) decides; null when there is none; "Miami-Fort
\* Lauderdale-Pompano Beach, FL" gives "FL" and
\* "Portland-Vancouver-Hillsboro, OR-WA" gives "OR".
C9_TokenOrExcludedMember ==
  ret # NoArg =>
    LET t == Tokens(arg)
        hit(i) == TwoIsUpper(t[i]) \/ \E f \in EXCLUDED_STATES : StrIn(f, t[i])
        hits == {i \in 1..Len(t) : hit(i)}
    IN  /\ IF hits = {} THEN ret = None
           ELSE LET k == MinOf(hits)
                IN  IF TwoIsUpper(t[k]) THEN ret = t[k]
                    ELSE ret \in EXCLUDED_STATES /\ StrIn(ret, t[k])
        /\ arg = MiamiMetro => ret = <<"F","L">>
        /\ arg = PortlandMetro => ret = <<"O","R">>

\* "OR" was extracted from "Portland-Vancouver-Hillsboro, OR-WA"
C9_Witness == arg = PortlandMetro /\ ret = <<"O","R">>

\* an abbreviation was extracted from inside a longer token
C9_SubstringWitness ==
  /\ ret = <<"N","Y">>
  /\ \A i \in 1..Len(Tokens(arg)) : Tokens(arg)[i] # <<"N","Y">>

MSA == <<" ","M","S","A">>

\* NAME values of the boundary dataset
CensusNames ==
  { Portland \o <<"-">> \o <<"V","a","n","c","o","u","v","e","r">> \o CommaSp \o <<"O","R">>,
    <<"S","o","u","t","h"," ">> \o Portland \o CommaSp \o <<"M","E">>,
    Bend \o CommaSp \o <<"O","R">>,
    Miami \o CommaSp \o <<"F","L">> \o <<" ","M","e","t","r","o"," ","A","r","e","a">> }

\* lines of target_metros.txt
TargetLines ==
  { Portland \o CommaSp \o <<"O","R">> \o MSA,
    Bend \o <<"-">> \o <<"R","e","d","m","o","n","d">> \o CommaSp \o <<"O","R">> \o MSA,
    <<" ">> \o Miami \o MSA \o <<" ">>,
    Miami \o CommaSp \o <<"F","L">> \o <<" ","M","e","t","r","o"," ","A","r","e","a">>,
    Other, Rural, <<>> }

TargetFilesUpTo(n) == {NoFile} \cup SeqsUpTo(TargetLines, n)

InitFilter ==
  /\ StudyAtStart
  /\ arg \in {<<name, file>> : name \in CensusNames, file \in TargetFilesUpTo(MaxLines)}
  /\ ret = NoArg

\* lines 76-105 applied to a dataset of one record: the NAMEs kept
ApplyFilter ==
  /\ ret = NoArg
  /\ LET all_metro_data == ReadFile(<< <<arg[1], [lo |-> 0, hi |-> 1]>> >>)
         kept == FilteredFrame(all_metro_data, ReadTargetNames(arg[2]))
     IN  ret' = [i \in 1..Len(kept.rows) |-> kept.rows[i].NAME]
  /\ UNCHANGED <<env, metro_data, pc, local, response, history, arg>>

SpecFilter == InitFilter /\ [][ApplyFilter]_vars

\* the entries of the allow-list: trimmed lines, without blanks and sentinels
Entries(file) ==
  IF file = NoFile THEN {}
  ELSE {StrStrip(file[i]) : i \in 1..Len(file)}
         \ {<<>>, <<"O","t","h","e","r">>, <<"R","u","r","a","l">>}

\* lowercased, cut at the first comma, trimmed, " msa" removed
Normalized(name) ==
  StrStrip(StrReplace(StrStrip(StrSplit(StrLower(name), ",")[1]),
                      <<" ","m","s","a">>, <<>>))

FilterApplied == ret # NoArg /\ Len(arg) = 2

RecordKept == ret = <<arg[1]>>

====
